---------------------------- MODULE Spec2Model ----------------------------
(***************************************************************************)
(* pwasm-abi derive: the eth_abi attribute macro (src/derive/src/lib.rs).   *)
(* One compilation pass turns an Interface into an endpoint (dispatch,      *)
(* dispatch_ctor), an optional client and a JSON manifest.  The model       *)
(* holds the generated artifacts as data and executes them: the endpoint    *)
(* on incoming payloads, the client stubs against an endpoint of the same   *)
(* interface.                                                               *)
(*                                                                          *)
(* TLC's integers are 32-bit signed, so every u32 of the model (selectors,  *)
(* words) is drawn below 2^31: the leading byte of an id is at most 0x7f.   *)
(* Within that range the arithmetic is the code's.                          *)
(***************************************************************************)
EXTENDS Integers, Sequences, FiniteSets, TLC

VARIABLES
    pc,             \* "parsed" before the pass, "generated" after it
    intf,           \* items::Interface handed to the macro
    branches,       \* generate_eth_endpoint: the match arms of dispatch
    ctor_branch,    \* generate_eth_endpoint: body of dispatch_ctor, <<>> or <<body>>
    calls,          \* generate_eth_client: the stubs of the client
    client_ctor,    \* generate_eth_client: the constructor stub, <<>> or <<stub>>
    abi,            \* write_json_abi: the manifest
    inner,          \* the endpoint's wrapped implementation: handler calls made on it so far
    op,             \* the last operation run
    payload,        \* its input payload
    value,          \* pwasm_ethereum::value() during it
    outcome,        \* how it ended
    output,         \* bytes returned by dispatch
    method_id,      \* id parsed by dispatch (NoId when not read)
    matched,        \* ident of the arm entered (NoMatch when none)
    decoding,       \* TRUE when the arm reached Stream::new / argument decoding
    invoked,        \* handler call the run made on inner, <<>> or <<[ident, args]>>
    result,         \* value returned by the handler, <<>> or <<v>>
    gas,            \* client field gas: Option<u64>, <<>> or <<g>>
    address,        \* client field address (NoMatch: no client instance yet)
    cvalue,         \* client field value: Option<U256>, <<>> or <<v>>
    client,         \* TRUE when the pass was given a client name
    stub,           \* name of the client stub invoked last (NoMatch: none)
    stub_kind,      \* "call", "event" or "ctor" (NoMatch: none)
    sent_payload,   \* payload that stub built
    sent,           \* arguments passed to that stub
    call_count,     \* invocations of pwasm_ethereum::call by that stub
    call_args,      \* <<gas, address, value>> handed to pwasm_ethereum::call
    result_buf,     \* the client's result buffer after the call
    stub_outcome,   \* how the stub ended
    stub_result     \* value the stub returned, <<>> or <<v>>

vars == <<pc, intf, branches, ctor_branch, calls, client_ctor, abi, inner, op,
          payload, value, outcome, output, method_id, matched, decoding, invoked,
          result, gas, address, cvalue, client, stub, stub_kind, sent_payload, sent,
          call_count, call_args, result_buf, stub_outcome, stub_result>>

endpoint_vars == <<inner, op, payload, value, outcome, output, method_id,
                   matched, decoding, invoked, result>>

stub_vars == <<stub, stub_kind, sent_payload, sent, call_count, call_args,
               result_buf, stub_outcome, stub_result>>

client_fields == <<gas, address, cvalue>>

artifacts == <<pc, intf, branches, ctor_branch, client, calls, client_ctor, abi>>

NoId == 0 - 1
NoMatch == "-"

\* ------------------------------------------------------------------------
\* Bounds of the model.

MaxItems == 2       \* items declared in an interface
MaxCalls == 1       \* handler calls made on inner

\* ------------------------------------------------------------------------
\* Values of the ABI types the model uses.

U32(n) == [type |-> "u32", int |-> n, bytes |-> <<>>]
Bool(b) == [type |-> "bool", int |-> IF b THEN 1 ELSE 0, bytes |-> <<>>]
Bytes(bs) == [type |-> "bytes", int |-> 0, bytes |-> bs]

U32Pool == {1, 16909060}                  \* 0x00000001, 0x01020304
BytesPool == {<<>>, <<255>>}

Values(t) ==
    CASE t = "u32" -> {U32(n) : n \in U32Pool}
      [] t = "bool" -> {Bool(b) : b \in BOOLEAN}
      [] t = "bytes" -> {Bytes(bs) : bs \in BytesPool}

\* All argument lists of the given types, in order.
RECURSIVE ArgLists(_)
ArgLists(types) ==
    IF types = <<>> THEN {<<>>}
    ELSE {<<v>> \o rest : v \in Values(Head(types)), rest \in ArgLists(Tail(types))}

\* ------------------------------------------------------------------------
\* The encoding collaborator: pwasm_abi::eth::Sink and pwasm_abi::eth::Stream,
\* on the 32-byte-word ABI encoding.  A static value (u32, bool) takes one word
\* of the preamble; a dynamic one (bytes) takes one preamble word holding its
\* offset from the start of the encoding, and, on the heap, a length word and
\* the data padded to whole words.

WordSize == 32

Zeros(n) == [i \in 1..n |-> 0]

\* Big-endian bytes of a 32-bit number, and back.
BE4(n) == <<(n \div 16777216) % 256, (n \div 65536) % 256, (n \div 256) % 256, n % 256>>

FromBE4(b) == b[1] * 16777216 + b[2] * 65536 + b[3] * 256 + b[4]

Word(n) == Zeros(WordSize - 4) \o BE4(n)

Padded(bs) == bs \o Zeros((WordSize - (Len(bs) % WordSize)) % WordSize)

SinkNew(capacity) ==
    [capacity |-> WordSize * capacity, preamble |-> <<>>, heap |-> <<>>]

SinkPush(sink, v) ==
    IF v.type = "bytes"
    THEN LET top_ptr == sink.capacity + Len(sink.heap)
         IN  [sink EXCEPT !.heap = @ \o Word(Len(v.bytes)) \o Padded(v.bytes),
                          !.preamble = @ \o Word(top_ptr)]
    ELSE [sink EXCEPT !.preamble = @ \o Word(v.int)]

\* sink.push of each value of a list, first to last.
RECURSIVE SinkPushAll(_, _)
SinkPushAll(sink, vs) ==
    IF vs = <<>> THEN sink ELSE SinkPushAll(SinkPush(sink, Head(vs)), Tail(vs))

SinkDrainTo(sink, target) == target \o sink.preamble \o sink.heap

SinkFinalizePanicking(sink) == sink.preamble \o sink.heap

StreamNew(bytes) == [payload |-> bytes, position |-> 0]

PopFailed == [ok |-> FALSE, value |-> U32(0), stream |-> StreamNew(<<>>)]

\* The word at byte offset pos, when the payload holds it whole.
HasWord(bytes, pos) == pos >= 0 /\ pos + WordSize <= Len(bytes)

WordAt(bytes, pos) == SubSeq(bytes, pos + 1, pos + WordSize)

IsU32Word(w) == \A i \in 1..(WordSize - 4) : w[i] = 0

U32OfWord(w) == FromBE4(SubSeq(w, WordSize - 3, WordSize))

\* stream.pop::<T>(): the value and the advanced stream, or a failure.
StreamPop(s, t) ==
    IF ~HasWord(s.payload, s.position) THEN PopFailed
    ELSE LET w == WordAt(s.payload, s.position)
             next == [s EXCEPT !.position = @ + WordSize]
         IN  IF ~IsU32Word(w) THEN PopFailed
             ELSE CASE t = "u32" -> [ok |-> TRUE, value |-> U32(U32OfWord(w)), stream |-> next]
                    [] t = "bool" ->
                         IF U32OfWord(w) \in {0, 1}
                         THEN [ok |-> TRUE, value |-> Bool(U32OfWord(w) = 1), stream |-> next]
                         ELSE PopFailed
                    [] t = "bytes" ->
                         LET off == U32OfWord(w) IN
                         IF ~HasWord(s.payload, off) \/ ~IsU32Word(WordAt(s.payload, off))
                         THEN PopFailed
                         ELSE LET len == U32OfWord(WordAt(s.payload, off)) IN
                              IF off + WordSize + len > Len(s.payload) THEN PopFailed
                              ELSE [ok |-> TRUE,
                                    value |-> Bytes(SubSeq(s.payload, off + WordSize + 1,
                                                           off + WordSize + len)),
                                    stream |-> next]

\* The pops of an argument list, left to right: the values, or a failure.
RECURSIVE StreamPopAll(_, _)
StreamPopAll(s, types) ==
    IF types = <<>> THEN [ok |-> TRUE, values |-> <<>>]
    ELSE LET first == StreamPop(s, Head(types)) IN
         IF ~first.ok THEN [ok |-> FALSE, values |-> <<>>]
         ELSE LET rest == StreamPopAll(first.stream, Tail(types)) IN
              IF ~rest.ok THEN [ok |-> FALSE, values |-> <<>>]
              ELSE [ok |-> TRUE, values |-> <<first.value>> \o rest.values]

\* ------------------------------------------------------------------------
\* The interface model: items::Interface, items::Item, items::Signature as
\* the generators read them.

Arg(pat, ty) == [pat |-> pat, ty |-> ty]

Signature(name, arguments, return_types, hash, is_payable) ==
    [kind |-> "Signature", name |-> name, arguments |-> arguments,
     return_types |-> return_types, hash |-> hash, is_payable |-> is_payable]

Event(name, arguments, hash) ==
    [kind |-> "Event", name |-> name, arguments |-> arguments,
     return_types |-> <<>>, hash |-> hash, is_payable |-> FALSE]

Other(name) ==
    [kind |-> "Other", name |-> name, arguments |-> <<>>,
     return_types |-> <<>>, hash |-> 0, is_payable |-> FALSE]

\* Selectors of the pool.  SelTotal is shared by two methods: uniqueness of
\* selectors within an interface is not enforced by the pass.
SelTotal == FromBE4(<<24, 22, 13, 221>>)        \* 0x18160ddd
SelPut == FromBE4(<<112, 160, 130, 49>>)        \* 0x70a08231
SelLog == FromBE4(<<45, 72, 44, 17>>)           \* 0x2d482c11
SelCtor == FromBE4(<<11, 125, 121, 110>>)       \* 0x0b7d796e
SelNone == FromBE4(<<49, 130, 160, 112>>)       \* 0x3182a070: SelPut's bytes reversed

ItemTotal == Signature("total", <<>>, <<"u32">>, SelTotal, FALSE)
ItemPut == Signature("put", <<Arg("key", "u32"), Arg("flag", "bool")>>, <<>>, SelPut, TRUE)
ItemEcho == Signature("echo", <<Arg("data", "bytes")>>, <<"bytes">>, SelTotal, FALSE)
ItemLog == Event("Log", <<Arg("n", "u32")>>, SelLog)
ItemOther == Other("VERSION")

ItemPool == {ItemTotal, ItemPut, ItemEcho, ItemLog, ItemOther}

CtorPool == {Signature("constructor", <<Arg("supply", "u32")>>, <<>>, SelCtor, p) :
             p \in BOOLEAN}

\* Declarations are distinct trait items, in their declaration order.
ItemSeqs ==
    UNION {{s \in [1..n -> ItemPool] : \A i, j \in 1..n : i # j => s[i] # s[j]} :
           n \in 0..MaxItems}

Interfaces ==
    {[name |-> "Contract", constructor |-> c, items |-> s] :
     c \in {<<>>} \cup {<<k>> : k \in CtorPool}, s \in ItemSeqs}

ArgTypes(arguments) == [i \in 1..Len(arguments) |-> arguments[i].ty]

\* Mutant of filter_map: the results are collected last to first.
RECURSIVE filter_map_reversed(_, _)
filter_map_reversed(f, items) ==
    IF items = <<>> THEN <<>> ELSE filter_map_reversed(f, Tail(items)) \o f[Head(items)]

\* Vec::iter().filter_map(f).collect(): f, a function on items, gives <<>>
\* (None) or <<x>> (Some(x)).
RECURSIVE filter_map(_, _)
filter_map(f, items) ==
    IF items = <<>> THEN <<>> ELSE f[Head(items)] \o filter_map(f, Tail(items))

\* ------------------------------------------------------------------------
\* generate_eth_endpoint.

\* Mutant of endpoint_branch: every arm takes the shape without return value.
endpoint_branch_never_encodes(signature) ==
    [hash_literal |-> signature.hash,
     ident |-> signature.name,
     arg_types |-> ArgTypes(signature.arguments),
     check_value |-> ~signature.is_payable,
     has_return |-> FALSE,
     return_count_literal |-> Len(signature.return_types)]

\* A match arm (or the constructor body): the value check is emitted unless
\* the signature is payable; has_return tells the two shapes of arm apart.
endpoint_branch(signature) ==
    [hash_literal |-> signature.hash,
     ident |-> signature.name,
     arg_types |-> ArgTypes(signature.arguments),
     check_value |-> ~signature.is_payable,
     has_return |-> signature.return_types # <<>>,
     return_count_literal |-> Len(signature.return_types)]

\* Mutant of endpoint_item: an Event item gets an arm too.
endpoint_item_with_events(item) ==
    IF item.kind \in {"Signature", "Event"} THEN <<endpoint_branch(item)>> ELSE <<>>

endpoint_item(item) ==
    IF item.kind = "Signature" THEN <<endpoint_branch(item)>> ELSE <<>>

generate_branches(interface) ==
    filter_map([item \in ItemPool |-> endpoint_item(item)], interface.items)

generate_ctor_branch(interface) ==
    IF interface.constructor = <<>> THEN <<>>
    ELSE <<endpoint_branch(interface.constructor[1])>>

\* ------------------------------------------------------------------------
\* generate_eth_client.

client_stub(kind, signature) ==
    [kind |-> kind,
     name |-> signature.name,
     hash_literal |-> signature.hash,
     argument_push |-> ArgTypes(signature.arguments),
     argument_count_literal |-> Len(signature.arguments),
     output |-> signature.return_types]

\* Mutant of client_item: the stub of an Event item is a call stub.
client_item_event_calls(item) ==
    IF item.kind \in {"Signature", "Event"} THEN <<client_stub("call", item)>> ELSE <<>>

client_item(item) ==
    CASE item.kind = "Signature" -> <<client_stub("call", item)>>
      [] item.kind = "Event" -> <<client_stub("event", item)>>
      [] OTHER -> <<>>

generate_calls(interface) ==
    filter_map([item \in ItemPool |-> client_item(item)], interface.items)

generate_client_ctor(interface) ==
    IF interface.constructor = <<>> THEN <<>>
    ELSE <<client_stub("ctor", interface.constructor[1])>>

\* ------------------------------------------------------------------------
\* write_json_abi: json::Abi from the interface.

abi_function(item) ==
    IF item.kind = "Signature"
    THEN <<[name |-> item.name, inputs |-> item.arguments, outputs |-> item.return_types,
            payable |-> item.is_payable, selector |-> item.hash]>>
    ELSE <<>>

abi_event(item) ==
    IF item.kind = "Event" THEN <<[name |-> item.name, inputs |-> item.arguments]>> ELSE <<>>

json_abi(interface) ==
    [name |-> interface.name,
     constructor |-> IF interface.constructor = <<>> THEN <<>>
                     ELSE <<[inputs |-> interface.constructor[1].arguments,
                             payable |-> interface.constructor[1].is_payable]>>,
     functions |-> filter_map([item \in ItemPool |-> abi_function(item)], interface.items),
     events |-> filter_map([item \in ItemPool |-> abi_event(item)], interface.items)]

\* ------------------------------------------------------------------------
\* The generated endpoint.

\* What a run of dispatch or dispatch_ctor leaves behind.  invoked is <<>> or
\* <<[ident, args]>>: the handler call made on inner.
Ended(how, out, id, arm, dec, call, res) ==
    [outcome |-> how, output |-> out, method_id |-> id, matched |-> arm,
     decoding |-> dec, invoked |-> call, result |-> res]

\* `match method_id { #(#branches,)* _ => panic!(..) }`: the first arm whose
\* literal is the id, 0 for the wildcard arm.
match_arm(arms, id) ==
    IF \E i \in 1..Len(arms) : arms[i].hash_literal = id
    THEN CHOOSE i \in 1..Len(arms) :
            /\ arms[i].hash_literal = id
            /\ \A j \in 1..(i - 1) : arms[j].hash_literal # id
    ELSE 0

\* Mutant of run_branch: the arguments are popped before the value is checked.
run_branch_decode_first(arm, id, stream_payload, in_value, res) ==
    LET popped == StreamPopAll(StreamNew(stream_payload), arm.arg_types) IN
    IF ~popped.ok
    THEN Ended("ArgumentDecodeError", <<>>, id, arm.ident, TRUE, <<>>, <<>>)
    ELSE IF arm.check_value /\ in_value > 0
    THEN Ended("ValueNotAccepted", <<>>, id, arm.ident, TRUE, <<>>, <<>>)
    ELSE LET call == <<[ident |-> arm.ident, args |-> popped.values]>> IN
         IF arm.has_return
         THEN Ended("ok",
                    SinkFinalizePanicking(
                        SinkPush(SinkNew(arm.return_count_literal), res[1])),
                    id, arm.ident, TRUE, call, res)
         ELSE Ended("ok", <<>>, id, arm.ident, TRUE, call, <<>>)

\* Mutant of run_branch: the handler is entered before its arguments are
\* known to decode.
run_branch_invokes_early(arm, id, stream_payload, in_value, res) ==
    IF arm.check_value /\ in_value > 0
    THEN Ended("ValueNotAccepted", <<>>, id, arm.ident, FALSE, <<>>, <<>>)
    ELSE LET popped == StreamPopAll(StreamNew(stream_payload), arm.arg_types)
             call == <<[ident |-> arm.ident, args |-> popped.values]>>
         IN  IF ~popped.ok
             THEN Ended("ArgumentDecodeError", <<>>, id, arm.ident, TRUE, call, <<>>)
             ELSE IF arm.has_return
             THEN Ended("ok",
                        SinkFinalizePanicking(
                            SinkPush(SinkNew(arm.return_count_literal), res[1])),
                        id, arm.ident, TRUE, call, res)
             ELSE Ended("ok", <<>>, id, arm.ident, TRUE, call, <<>>)

\* The body of an arm, and of dispatch_ctor: the value check when emitted,
\* the arguments popped left to right, the handler, the result encoded.
\* res is what the handler returns, <<>> for a handler without return type.
run_branch(arm, id, stream_payload, in_value, res) ==
    IF arm.check_value /\ in_value > 0
    THEN Ended("ValueNotAccepted", <<>>, id, arm.ident, FALSE, <<>>, <<>>)
    ELSE LET popped == StreamPopAll(StreamNew(stream_payload), arm.arg_types) IN
         IF ~popped.ok
         THEN Ended("ArgumentDecodeError", <<>>, id, arm.ident, TRUE, <<>>, <<>>)
         ELSE LET call == <<[ident |-> arm.ident, args |-> popped.values]>> IN
              IF arm.has_return
              THEN Ended("ok",
                         SinkFinalizePanicking(
                             SinkPush(SinkNew(arm.return_count_literal), res[1])),
                         id, arm.ident, TRUE, call, res)
              ELSE Ended("ok", <<>>, id, arm.ident, TRUE, call, <<>>)

method_id_of(in_payload) ==
    in_payload[1] * 16777216 + in_payload[2] * 65536 + in_payload[3] * 256 + in_payload[4]

\* Mutant of dispatch: no length check, the bytes missing from the id read as 0.
dispatch_no_length_check(arms, in_payload, in_value, res) ==
    LET id == method_id_of(in_payload \o Zeros(4))
        method_payload == SubSeq(in_payload, 5, Len(in_payload))
        arm == match_arm(arms, id)
    IN  IF arm = 0
        THEN Ended("UnknownSelector", <<>>, id, NoMatch, FALSE, <<>>, <<>>)
        ELSE run_branch(arms[arm], id, method_payload, in_value, res)

dispatch(arms, in_payload, in_value, res) ==
    IF Len(in_payload) < 4
    THEN Ended("InvalidPayload", <<>>, NoId, NoMatch, FALSE, <<>>, <<>>)
    ELSE LET id == method_id_of(in_payload)
             method_payload == SubSeq(in_payload, 5, Len(in_payload))
             arm == match_arm(arms, id)
         IN  IF arm = 0
             THEN Ended("UnknownSelector", <<>>, id, NoMatch, FALSE, <<>>, <<>>)
             ELSE run_branch(arms[arm], id, method_payload, in_value, res)

\* Mutant of dispatch_ctor: the value check is emitted outside the
\* constructor's body, so it runs without a constructor too.
dispatch_ctor_always_checks(body, in_payload, in_value) ==
    IF body = <<>>
    THEN IF in_value > 0
         THEN Ended("ValueNotAccepted", <<>>, NoId, NoMatch, FALSE, <<>>, <<>>)
         ELSE Ended("ok", <<>>, NoId, NoMatch, FALSE, <<>>, <<>>)
    ELSE run_branch(body[1], NoId, in_payload, in_value, <<>>)

dispatch_ctor(body, in_payload, in_value) ==
    IF body = <<>>
    THEN Ended("ok", <<>>, NoId, NoMatch, FALSE, <<>>, <<>>)
    ELSE run_branch(body[1], NoId, in_payload, in_value, <<>>)

\* What the handler of an arm may return: any value of the declared return
\* type of the trait method (the implementation is the user's).
HandlerReturns(arms, in_payload) ==
    IF Len(in_payload) < 4 \/ match_arm(arms, method_id_of(in_payload)) = 0
    THEN {<<>>}
    ELSE LET ident == arms[match_arm(arms, method_id_of(in_payload))].ident
             decl == CHOOSE it \in ItemPool : it.kind = "Signature" /\ it.name = ident
         IN  IF decl.return_types = <<>> THEN {<<>>}
             ELSE {<<v>> : v \in Values(decl.return_types[1])}

\* ------------------------------------------------------------------------
\* Inputs.

IdPool == {SelTotal, SelPut, SelLog, SelCtor, SelNone}

ValuePool == {0, 1}

\* The encoding of an argument list by a sink of that many words.
Encoded(args) == SinkDrainTo(SinkPushAll(SinkNew(Len(args)), args), <<>>)

\* Argument payloads handed to the endpoint: encoded argument lists of the
\* pool's signatures, the empty payload, and a word cut short.
SampleArgLists ==
    {<<>>, <<U32(1), Bool(TRUE)>>, <<Bytes(<<255>>)>>, <<U32(16909060)>>}

ArgPayloads == {Encoded(args) : args \in SampleArgLists} \cup {Zeros(WordSize - 1)}

ShortPayloads == {SubSeq(BE4(SelPut), 1, n) : n \in 0..3}

Payloads == ShortPayloads \cup {BE4(id) \o rest : id \in IdPool, rest \in ArgPayloads}

\* ------------------------------------------------------------------------
\* State machine.

NoAbi == [name |-> "", constructor |-> <<>>, functions |-> <<>>, events |-> <<>>]

Init ==
    /\ pc = "parsed"
    /\ intf \in Interfaces
    /\ branches = <<>> /\ ctor_branch = <<>>
    /\ client = FALSE /\ calls = <<>> /\ client_ctor = <<>>
    /\ abi = NoAbi
    /\ inner = 0
    /\ op = NoMatch /\ payload = <<>> /\ value = 0
    /\ outcome = NoMatch /\ output = <<>>
    /\ method_id = NoId /\ matched = NoMatch /\ decoding = FALSE
    /\ invoked = <<>> /\ result = <<>>
    /\ gas = <<>> /\ address = NoMatch /\ cvalue = <<>>
    /\ stub = NoMatch /\ stub_kind = NoMatch /\ sent_payload = <<>> /\ sent = <<>>
    /\ call_count = 0 /\ call_args = <<>> /\ result_buf = <<>>
    /\ stub_outcome = NoMatch /\ stub_result = <<>>

\* The pass of the attribute macro, eth_abi: the manifest is written, then the
\* endpoint is generated and, when a client name is given, the client.
eth_abi(client_name) ==
    /\ pc = "parsed"
    /\ abi' = json_abi(intf)
    /\ branches' = generate_branches(intf)
    /\ ctor_branch' = generate_ctor_branch(intf)
    /\ client' = client_name
    /\ calls' = IF client_name THEN generate_calls(intf) ELSE <<>>
    /\ client_ctor' = IF client_name THEN generate_client_ctor(intf) ELSE <<>>
    /\ pc' = "generated"
    /\ UNCHANGED <<intf, endpoint_vars, client_fields, stub_vars>>

\* #[eth_abi(Endpoint)]
generate_eth_endpoint_wrapper == eth_abi(FALSE)

\* #[eth_abi(Endpoint, Client)]
generate_eth_endpoint_and_client_wrapper == eth_abi(TRUE)

\* The endpoint takes the state a run left.  Runs that enter a handler are
\* counted up to MaxCalls; runs that fail are always possible.
EndpointRan(name, in_payload, in_value, run) ==
    /\ run.invoked # <<>> => inner < MaxCalls
    /\ op' = name
    /\ payload' = in_payload
    /\ value' = in_value
    /\ outcome' = run.outcome
    /\ output' = run.output
    /\ method_id' = run.method_id
    /\ matched' = run.matched
    /\ decoding' = run.decoding
    /\ invoked' = run.invoked
    /\ result' = run.result
    /\ inner' = IF run.invoked = <<>> THEN inner ELSE inner + 1

Dispatch ==
    /\ pc = "generated"
    /\ \E in_payload \in Payloads, in_value \in ValuePool :
          \E res \in HandlerReturns(branches, in_payload) :
             EndpointRan("dispatch", in_payload, in_value,
                         dispatch(branches, in_payload, in_value, res))
    /\ UNCHANGED <<artifacts, client_fields, stub_vars>>

DispatchCtor ==
    /\ pc = "generated"
    /\ \E in_payload \in ArgPayloads \cup ShortPayloads, in_value \in ValuePool :
          EndpointRan("dispatch_ctor", in_payload, in_value,
                      dispatch_ctor(ctor_branch, in_payload, in_value))
    /\ UNCHANGED <<artifacts, client_fields, stub_vars>>

Next == generate_eth_endpoint_wrapper \/ Dispatch \/ DispatchCtor

Spec == Init /\ [][Next]_vars

\* ------------------------------------------------------------------------
\* The generated client.

AddressPool == {"0xaa"}

GasPool == {21000}

DefaultGas == 200000

unwrap_or(option, default) == IF option = <<>> THEN default ELSE option[1]

\* Client::new(address)
ClientNew ==
    /\ pc = "generated" /\ client
    /\ address = NoMatch
    /\ \E a \in AddressPool : address' = a
    /\ gas' = <<>>
    /\ cvalue' = <<>>
    /\ UNCHANGED <<artifacts, endpoint_vars, stub_vars>>

\* Client::gas(self, gas)
ClientGas ==
    /\ address # NoMatch
    /\ \E g \in GasPool : gas' = <<g>>
    /\ UNCHANGED <<artifacts, endpoint_vars, stub_vars, address, cvalue>>

\* Client::value(self, val)
ClientValue ==
    /\ address # NoMatch
    /\ \E v \in ValuePool : cvalue' = <<v>>
    /\ UNCHANGED <<artifacts, endpoint_vars, stub_vars, address, gas>>

\* Mutant of hash_bytes: the shifts of the two middle bytes are swapped.
hash_bytes_swapped(hash_literal) ==
    <<(hash_literal \div 16777216) % 256, (hash_literal \div 256) % 256,
      (hash_literal \div 65536) % 256, hash_literal % 256>>

\* The four bytes a call stub puts in front of the payload.
hash_bytes(hash_literal) ==
    <<(hash_literal \div 16777216) % 256, (hash_literal \div 65536) % 256,
      (hash_literal \div 256) % 256, hash_literal % 256>>

\* The payload a call stub builds: the selector, then the sink drained.
call_payload(s, args) ==
    SinkDrainTo(SinkPushAll(SinkNew(s.argument_count_literal), args),
                hash_bytes(s.hash_literal))

\* `let mut result = ...`: empty without return type, one word with one.
result_instance(s) == IF s.output = <<>> THEN <<>> ELSE Zeros(WordSize)

\* pwasm_ethereum::call against an endpoint of the same interface: the
\* callee's output is copied into the caller's buffer, as far as it fits.
call_result(buf, out) ==
    [i \in 1..Len(buf) |-> IF i <= Len(out) THEN out[i] ELSE buf[i]]

\* What the stub makes of the buffer once the call returned Ok.
result_pop(s, buf) ==
    IF s.output = <<>> THEN [ok |-> TRUE, value |-> <<>>]
    ELSE LET popped == StreamPop(StreamNew(buf), s.output[1]) IN
         IF popped.ok THEN [ok |-> TRUE, value |-> <<popped.value>>]
         ELSE [ok |-> FALSE, value |-> <<>>]

\* A stub of a Signature item is invoked; the external call runs dispatch of
\* the endpoint with the client's value as the transferred value.
InvokeCall ==
    /\ address # NoMatch
    /\ \E i \in 1..Len(calls) :
          /\ calls[i].kind = "call"
          /\ \E args \in ArgLists(calls[i].argument_push) :
                LET s == calls[i]
                    built == call_payload(s, args)
                    sent_value == unwrap_or(cvalue, 0)
                IN  \E res \in HandlerReturns(branches, built) :
                       LET run == dispatch(branches, built, sent_value, res)
                           buf == IF run.outcome = "ok"
                                  THEN call_result(result_instance(s), run.output)
                                  ELSE result_instance(s)
                           popped == result_pop(s, buf)
                       IN  /\ EndpointRan("dispatch", built, sent_value, run)
                           /\ stub' = s.name
                           /\ stub_kind' = "call"
                           /\ sent' = args
                           /\ sent_payload' = built
                           /\ call_count' = 1
                           /\ call_args' = <<unwrap_or(gas, DefaultGas), address, sent_value>>
                           /\ result_buf' = buf
                           /\ stub_outcome' = IF run.outcome # "ok" THEN "CallFailed"
                                              ELSE IF popped.ok THEN "ok"
                                              ELSE "ResultDecodeFailed"
                           /\ stub_result' = IF run.outcome = "ok" THEN popped.value ELSE <<>>
    /\ UNCHANGED <<artifacts, client_fields>>

\* A stub that panics at once: nothing is built, nothing is called.
StubPanics(s, args, how) ==
    /\ stub' = s.name
    /\ stub_kind' = s.kind
    /\ sent' = args
    /\ sent_payload' = <<>>
    /\ call_count' = 0
    /\ call_args' = <<>>
    /\ result_buf' = <<>>
    /\ stub_outcome' = how
    /\ stub_result' = <<>>

\* The stub of an Event item: panic!("cannot use event in client interface").
InvokeEvent ==
    /\ address # NoMatch
    /\ \E i \in 1..Len(calls) :
          /\ calls[i].kind = "event"
          /\ \E args \in ArgLists(calls[i].argument_push) :
                StubPanics(calls[i], args, "EventPanic")
    /\ UNCHANGED <<artifacts, client_fields, endpoint_vars>>

\* The constructor stub: unimplemented!().
InvokeCtor ==
    /\ address # NoMatch
    /\ client_ctor # <<>>
    /\ \E args \in ArgLists(client_ctor[1].argument_push) :
          StubPanics(client_ctor[1], args, "Unimplemented")
    /\ UNCHANGED <<artifacts, client_fields, endpoint_vars>>

ClientNext ==
    \/ generate_eth_endpoint_and_client_wrapper
    \/ ClientNew \/ ClientGas \/ ClientValue
    \/ InvokeCall \/ InvokeEvent \/ InvokeCtor

ClientSpec == Init /\ [][ClientNext]_vars

\* ------------------------------------------------------------------------
\* Properties of the endpoint (checked under Spec).

Signatures == {intf.items[i] : i \in {j \in 1..Len(intf.items) : intf.items[j].kind = "Signature"}}

SignatureSelectors == {it.hash : it \in Signatures}

\* The declaration behind the arm that ran: the constructor for dispatch_ctor,
\* the Signature item of that name for dispatch.
Declared(name) ==
    IF op = "dispatch_ctor" THEN intf.constructor[1]
    ELSE CHOOSE it \in Signatures : it.name = name

Failures == {"InvalidPayload", "UnknownSelector", "ValueNotAccepted", "ArgumentDecodeError"}

\* The ids of the pool that dispatch routes to some arm.
AcceptedIds == {id \in IdPool : match_arm(branches, id) # 0}

\* C1: dispatch routes the id of a payload to a handler exactly when the id is
\* the selector of a Signature item of the interface, and the arm entered is
\* one of that selector; every other id (an event's selector, the
\* constructor's, any other) ends in UnknownSelector whatever the argument
\* payload and the value.  With N methods of pairwise distinct selectors
\* exactly N ids are accepted.
C1_RoutesExactlySignatures ==
    /\ (op = "dispatch" /\ Len(payload) >= 4) =>
          /\ method_id = FromBE4(SubSeq(payload, 1, 4))
          /\ (matched # NoMatch) <=> (method_id \in SignatureSelectors)
          /\ (outcome = "UnknownSelector") <=> (method_id \notin SignatureSelectors)
          /\ matched # NoMatch =>
                \E it \in Signatures : it.name = matched /\ it.hash = method_id
          /\ method_id \notin SignatureSelectors => invoked = <<>> /\ ~decoding
    /\ pc = "generated" =>
          /\ AcceptedIds = SignatureSelectors \cap IdPool
          /\ Cardinality(SignatureSelectors) = Cardinality(Signatures)
                => Cardinality(AcceptedIds) = Cardinality(Signatures)

\* An event's selector, with a decodable payload and a nonzero value, is
\* rejected by an interface that declares the event and one method.
C1_Witness ==
    /\ op = "dispatch" /\ outcome = "UnknownSelector"
    /\ method_id = SelLog /\ value = 1 /\ Len(payload) > 4
    /\ \E i \in 1..Len(intf.items) : intf.items[i] = ItemLog
    /\ Cardinality(SignatureSelectors) = 1 /\ Cardinality(AcceptedIds) = 1

\* C2: a payload of fewer than four bytes ends dispatch in InvalidPayload, for
\* every interface, content and value, before the id is read, an arm is
\* matched, the value is checked or a handler is invoked.
C2_ShortPayloadInvalid ==
    (op = "dispatch" /\ Len(payload) < 4) =>
        /\ outcome = "InvalidPayload"
        /\ method_id = NoId /\ matched = NoMatch
        /\ ~decoding /\ invoked = <<>> /\ output = <<>>

C2_Witness ==
    /\ op = "dispatch" /\ Len(payload) = 3 /\ value = 1
    /\ outcome = "InvalidPayload" /\ branches # <<>>

\* C3: in an arm of dispatch, and in dispatch_ctor of a declared constructor,
\* a signature that is not payable fails a nonzero value with ValueNotAccepted
\* before decoding and without the handler; with zero value it reaches
\* decoding; a payable one is never rejected for the value.
C3_ValueCheckBeforeDecoding ==
    (\/ op = "dispatch" /\ matched # NoMatch
     \/ op = "dispatch_ctor" /\ intf.constructor # <<>>) =>
        LET decl == Declared(matched) IN
        /\ (~decl.is_payable /\ value > 0) =>
              outcome = "ValueNotAccepted" /\ ~decoding /\ invoked = <<>>
        /\ (~decl.is_payable /\ value = 0) => decoding
        /\ decl.is_payable => outcome # "ValueNotAccepted" /\ decoding

\* A non-payable method with nonzero value and an argument payload that does
\* not decode.
C3_Witness ==
    /\ op = "dispatch" /\ matched = "echo" /\ value = 1
    /\ Len(payload) = 4 /\ outcome = "ValueNotAccepted"

\* C5: a failed run of dispatch invokes no handler, leaves the wrapped
\* implementation and the generated endpoint (its arms, which decide how the
\* next call is routed and answered) as they were and returns nothing; a
\* handler is only entered with all its arguments decoded.
C5_FailuresAtomic ==
    /\ [](invoked # <<>> =>
            /\ outcome = "ok"
            /\ Len(invoked[1].args) = Len(Declared(invoked[1].ident).arguments))
    /\ [][(pc = "generated" /\ outcome' \in Failures) =>
            /\ inner' = inner
            /\ invoked' = <<>> /\ output' = <<>> /\ result' = <<>>
            /\ branches' = branches /\ ctor_branch' = ctor_branch]_vars

\* A call fails in decoding after an earlier call went through.
C5_Witness ==
    /\ op = "dispatch" /\ outcome = "ArgumentDecodeError" /\ inner = 1

\* C6: the output of a successful dispatch is empty when the method declares
\* no return type, and otherwise the sink encoding of the handler's result:
\* at least a word, from which the result is read back.
C6_OutputByReturnTypes ==
    (op = "dispatch" /\ outcome = "ok") =>
        LET decl == Declared(matched) IN
        /\ decl.return_types = <<>> => output = <<>> /\ result = <<>>
        /\ decl.return_types # <<>> =>
              /\ result # <<>>
              /\ output = SinkFinalizePanicking(
                              SinkPush(SinkNew(Len(decl.return_types)), result[1]))
              /\ Len(output) >= WordSize
              /\ StreamPop(StreamNew(output), decl.return_types[1]).value = result[1]

C6_Witness ==
    /\ op = "dispatch" /\ outcome = "ok" /\ matched = "echo"
    /\ result = <<Bytes(<<255>>)>> /\ Len(output) = 3 * WordSize

IsPrefix(a, b) == Len(a) <= Len(b) /\ SubSeq(b, 1, Len(a)) = a

\* C7: without a declared constructor dispatch_ctor does nothing, whatever
\* the payload and the value; with one it decodes the arguments from the
\* whole payload (they are its leading words), reads no id, and invokes the
\* constructor handler.
C7_CtorDispatch ==
    /\ [](op = "dispatch_ctor" =>
            /\ method_id = NoId /\ output = <<>>
            /\ intf.constructor = <<>> =>
                  outcome = "ok" /\ invoked = <<>> /\ ~decoding /\ matched = NoMatch
            /\ (intf.constructor # <<>> /\ outcome = "ok") =>
                  /\ invoked # <<>>
                  /\ invoked[1].ident = intf.constructor[1].name
                  /\ IsPrefix(Encoded(invoked[1].args), payload)
                  /\ [i \in 1..Len(invoked[1].args) |-> invoked[1].args[i].type]
                        = ArgTypes(intf.constructor[1].arguments))
    /\ [][(op' = "dispatch_ctor" /\ intf.constructor = <<>>) => inner' = inner]_vars

C7_Witness ==
    /\ op = "dispatch_ctor" /\ intf.constructor = <<>>
    /\ Len(payload) = 3 /\ value = 1 /\ outcome = "ok" /\ inner = 1

\* ------------------------------------------------------------------------
\* Properties of the client against the endpoint (checked under ClientSpec).

ItemNamed(name) == CHOOSE i \in 1..Len(intf.items) : intf.items[i].name = name

\* No Signature item declared before this one has its selector.
FirstOfSelector(name) ==
    \A j \in 1..(ItemNamed(name) - 1) :
        intf.items[j].kind = "Signature" =>
            intf.items[j].hash # intf.items[ItemNamed(name)].hash

\* C4, as amended: the payload a call stub builds is the selector in four
\* big-endian bytes followed by the encoded arguments; dispatch parses the
\* same id from it; and when no Signature item declared earlier shares the
\* selector, the arm of that method is entered and, past the value check,
\* decoding succeeds and hands that method's handler the arguments sent, in
\* order.
C4_ClientDispatchRoundTrip ==
    stub_kind = "call" =>
        LET decl == intf.items[ItemNamed(stub)] IN
        /\ call_count = 1 /\ op = "dispatch"
        /\ payload = sent_payload
        /\ SubSeq(payload, 1, 4) = BE4(decl.hash)
        /\ SubSeq(payload, 5, Len(payload)) = Encoded(sent)
        /\ method_id = decl.hash
        /\ FirstOfSelector(stub) =>
              /\ matched = stub
              /\ decoding => /\ outcome = "ok"
                             /\ invoked = <<[ident |-> stub, args |-> sent]>>

C4_Witness ==
    /\ stub_kind = "call" /\ stub = "put" /\ cvalue = <<1>>
    /\ sent = <<U32(16909060), Bool(TRUE)>>
    /\ invoked = <<[ident |-> "put", args |-> sent]>>

\* C4 as stated: for every method the handler of that same method gets the
\* arguments sent.
C4_EveryMethodRoundTrip ==
    (stub_kind = "call" /\ decoding) =>
        /\ outcome = "ok"
        /\ invoked = <<[ident |-> stub, args |-> sent]>>

\* C8: the stub of an Event item and the constructor stub fail for every
\* argument list and client configuration, with no payload built and no
\* external call made; only stubs of Signature items reach the call.
C8_EventAndCtorStubsFail ==
    /\ stub_kind # NoMatch =>
          IF stub_kind = "ctor"
          THEN /\ intf.constructor # <<>> /\ stub = intf.constructor[1].name
               /\ stub_outcome = "Unimplemented"
               /\ call_count = 0 /\ sent_payload = <<>> /\ call_args = <<>>
          ELSE /\ \E i \in 1..Len(intf.items) : intf.items[i].name = stub
               /\ intf.items[ItemNamed(stub)].kind = "Event" =>
                     /\ stub_outcome = "EventPanic"
                     /\ call_count = 0 /\ sent_payload = <<>> /\ call_args = <<>>
               /\ intf.items[ItemNamed(stub)].kind \in {"Signature", "Event"}
    /\ call_count # 0 =>
          /\ stub_kind = "call"
          /\ intf.items[ItemNamed(stub)].kind = "Signature"
          /\ Len(call_args) = 3 /\ call_args[2] = address

C8_Witness ==
    /\ stub_kind = "event" /\ stub = "Log" /\ stub_outcome = "EventPanic"
    /\ gas # <<>> /\ cvalue = <<1>> /\ call_count = 0 /\ inner = 1

IsSignature(item) == item.kind = "Signature"

IsEvent(item) == item.kind = "Event"

IsSignatureOrEvent(item) == item.kind \in {"Signature", "Event"}

NamesOf(items) == [i \in 1..Len(items) |-> items[i].name]

\* C9: the arms of dispatch are the Signature items, the stubs of the client
\* the Signature and Event items, the manifest's functions the Signature items
\* and its events the Event items, each in declaration order, none dropped,
\* doubled or moved.
C9_DeclarationOrder ==
    pc = "generated" =>
        /\ [i \in 1..Len(branches) |-> branches[i].ident]
              = NamesOf(SelectSeq(intf.items, IsSignature))
        /\ [i \in 1..Len(branches) |-> branches[i].hash_literal]
              = [i \in 1..Len(branches) |-> SelectSeq(intf.items, IsSignature)[i].hash]
        /\ client => NamesOf(calls) = NamesOf(SelectSeq(intf.items, IsSignatureOrEvent))
        /\ NamesOf(abi.functions) = NamesOf(SelectSeq(intf.items, IsSignature))
        /\ NamesOf(abi.events) = NamesOf(SelectSeq(intf.items, IsEvent))

C9_Witness ==
    /\ pc = "generated" /\ client
    /\ intf.items = <<ItemPut, ItemTotal>>
    /\ Len(branches) = 2 /\ Len(calls) = 2 /\ Len(abi.functions) = 2

\* C10: when the external call of a call stub succeeds, the stub returns the
\* value the handler returned, whatever the return type, and a stub without
\* return type decodes nothing from an empty buffer.  (Stated for a stub whose
\* own arm was entered.)
C10_ResultRoundTrip ==
    (stub_kind = "call" /\ outcome = "ok" /\ matched = stub) =>
        LET decl == intf.items[ItemNamed(stub)] IN
        /\ decl.return_types # <<>> => stub_outcome = "ok" /\ stub_result = result
        /\ decl.return_types = <<>> => stub_result = <<>> /\ result_buf = <<>>

=============================================================================
